---- MODULE Spec2Model ----
(***************************************************************************)
(* Workflow state machine and realtime synchronisation core of OrderFlow   *)
(* (App.tsx): the mapping of stored documents to ProcurementProcess        *)
(* values, the onSnapshot listener of useProcurementData, the upload       *)
(* controls of the detail panel and handleFileUpload with its two store    *)
(* writes and its webhook dispatch.                                        *)
(*                                                                         *)
(* Strings that the code sanitises or compares (ids, file names, supplier  *)
(* names) are sequences of one-character strings.  JavaScript's undefined  *)
(* and null are the sentinels below: a sequence whose only element is not  *)
(* a character, or the strings "undefined" and "null" for enumerated and   *)
(* opaque fields.                                                          *)
(***************************************************************************)
EXTENDS Integers, Sequences, FiniteSets, TLC

VARIABLES
    services,          \* TRUE iff getFirebaseServices() returned non-null
    store,             \* backing collection: document key -> raw document
    sub,               \* the onSnapshot listener: unmounted, none, active, failed, cancelled
    cleaned,           \* TRUE once the cleanup of useProcurementData's effect has run
    auth,              \* the authenticate() promise: none, pending, ok, failed
    items,             \* useProcurementData's state: ordered ProcurementProcess list
    connectionStatus,  \* connecting, connected, error
    selectedId,        \* id of the process shown in the detail panel, or Null
    filter,            \* status filter of the list: all, open, conflict, completed
    searchTerm,        \* content of the search field
    uploadingStage,    \* "confirmation", "delivery" or "null"
    webhookUrls,       \* stage -> configured endpoint url ("" when none)
    uploads,           \* the running handleFileUpload calls, one per slot
    event              \* what the last step reported to the user: how an upload
                       \* control answered, or how a handleFileUpload call ended

vars == <<services, store, sub, cleaned, auth, items, connectionStatus, selectedId,
          filter, searchTerm, uploadingStage, webhookUrls, uploads, event>>

----------------------------------------------------------------------------
(* Bounds of the model *)

\* number of handleFileUpload calls that may be suspended at an await at once
MaxUploads == 2

\* length of the longest text typed into the search field
MaxTermLen == 3

----------------------------------------------------------------------------
(* Values *)

Undefined == <<"undefined">>
Null == <<"null">>

\* a stored value that is no string (a number, a boolean, a map): it has no
\* replace method
NonString == <<"number">>

\* the characters of the class [<>"' and grave accent]; the grave accent is
\* written "GRAVE", the one character a string literal cannot hold
HazardChars == {"<", ">", "\"", "'", "GRAVE"}
Whitespace == {" "}

Stages == {"confirmation", "delivery"}
StepStatus == {"pending", "analyzing", "verified", "conflict"}
ProcessStatus == {"open", "conflict", "completed"}

\* document keys of the backing collection
Keys == {<<"1">>}

\* names of the files a user picks; one carries a markup character
FileNames == {<<"<", "f">>}

SimulatedReason == "Menge weicht ab (Simulierter Fehler)"

Unbekannt == <<"U", "n", "b", "e", "k", "a", "n", "n", "t">>

----------------------------------------------------------------------------
(* src/shared/sanitizers.ts *)

RECURSIVE StripHazard(_)
StripHazard(s) ==
    IF s = <<>> THEN <<>>
    ELSE IF Head(s) \in HazardChars THEN StripHazard(Tail(s))
    ELSE <<Head(s)>> \o StripHazard(Tail(s))

RECURSIVE TrimStart(_)
TrimStart(s) ==
    IF s = <<>> THEN <<>>
    ELSE IF Head(s) \in Whitespace THEN TrimStart(Tail(s))
    ELSE s

RECURSIVE TrimEnd(_)
TrimEnd(s) ==
    IF s = <<>> THEN <<>>
    ELSE IF s[Len(s)] \in Whitespace THEN TrimEnd(SubSeq(s, 1, Len(s) - 1))
    ELSE s

\* value.replace is not a function: the call throws a TypeError
sanitizeThrows(value) == value = NonString

\* a sanitizer that trims before it strips
SanitizeTrimFirst(value) == StripHazard(TrimEnd(TrimStart(value)))

\* value.replace(<the five HazardChars>, globally, by nothing).trim()
sanitizeTextInput(value) == TrimEnd(TrimStart(StripHazard(value)))

----------------------------------------------------------------------------
(* buildProcess *)

defaultStep ==
    [status |-> "pending", fileName |-> Undefined, uploadedAt |-> "undefined",
     conflictReason |-> "null", data |-> "null"]

\* a stage object with no fields: what (data.stage ?? {}) yields for a
\* document that has no such stage
EmptyStep ==
    [status |-> "undefined", fileName |-> Undefined, uploadedAt |-> "undefined",
     conflictReason |-> "undefined", data |-> "undefined"]

\* { ...defaultStep, ...step }: the fields the stored object has win
MergeStep(step) ==
    [status |-> IF step.status = "undefined" THEN defaultStep.status ELSE step.status,
     fileName |-> step.fileName,
     uploadedAt |-> step.uploadedAt,
     conflictReason |-> IF step.conflictReason = "undefined"
                        THEN defaultStep.conflictReason ELSE step.conflictReason,
     data |-> IF step.data = "undefined" THEN defaultStep.data ELSE step.data]

buildProcess(data, fallbackId) ==
    [id |-> sanitizeTextInput(IF data.id \in {Undefined, Null} THEN fallbackId ELSE data.id),
     supplierName |-> sanitizeTextInput(IF data.supplierName \in {Undefined, Null}
                                        THEN Unbekannt ELSE data.supplierName),
     status |-> IF data.status \in {"undefined", "null"} THEN "open" ELSE data.status,
     createdAt |-> IF data.createdAt \in {"undefined", "null"} THEN "null" ELSE data.createdAt,
     order |-> MergeStep(data.order),
     confirmation |-> MergeStep(data.confirmation),
     delivery |-> MergeStep(data.delivery)]

\* buildProcess(data, fallbackId) throws: one of its two sanitizeTextInput
\* calls gets a value that is there (so ?? keeps it) and is no string
buildProcessThrows(data) == sanitizeThrows(data.id) \/ sanitizeThrows(data.supplierName)

sanitizeStage(stage) == IF stage \in Stages THEN stage ELSE "null"

----------------------------------------------------------------------------
(* useProcurementData: the snapshot callback *)

\* collation order of the characters that occur in ids
CollationOrder == <<" ", "0", "1", "2", "3", "P", "Q", "S", "f", "o">>

Rank(c) == CHOOSE i \in 1..Len(CollationOrder) : CollationOrder[i] = c

\* a.localeCompare(b): negative, zero or positive
RECURSIVE localeCompare(_, _)
localeCompare(a, b) ==
    IF a = <<>> /\ b = <<>> THEN 0
    ELSE IF a = <<>> THEN -1
    ELSE IF b = <<>> THEN 1
    ELSE IF Rank(Head(a)) < Rank(Head(b)) THEN -1
    ELSE IF Rank(Head(a)) > Rank(Head(b)) THEN 1
    ELSE localeCompare(Tail(a), Tail(b))

\* the comparator of processes.sort: (a, b) => b.id.localeCompare(a.id)
compareFn(a, b) == localeCompare(b.id, a.id)

\* x placed after every element that the comparator does not put behind it
RECURSIVE InsertSorted(_, _)
InsertSorted(sorted, x) ==
    IF sorted = <<>> THEN <<x>>
    ELSE IF compareFn(Head(sorted), x) <= 0
         THEN <<Head(sorted)>> \o InsertSorted(Tail(sorted), x)
         ELSE <<x>> \o sorted

\* Array.prototype.sort with compareFn: a stable sort
RECURSIVE SortProcesses(_)
SortProcesses(ps) ==
    IF ps = <<>> THEN <<>>
    ELSE InsertSorted(SortProcesses(SubSeq(ps, 1, Len(ps) - 1)), ps[Len(ps)])

\* snapshot.docs: the documents of the collection, in document-key order
RECURSIVE DocKeys(_)
DocKeys(keys) ==
    IF keys = {} THEN <<>>
    ELSE LET k == CHOOSE x \in keys : \A y \in keys : localeCompare(x, y) <= 0
         IN <<k>> \o DocKeys(keys \ {k})

\* snapshot.docs.map((d) => buildProcess(d.data(), d.id)), then the sort
SnapshotProcesses(docs) ==
    LET keys == DocKeys(DOMAIN docs)
    IN SortProcesses([i \in 1..Len(keys) |-> buildProcess(docs[keys[i]], keys[i])])

\* the orders in which snapshot.docs may hold the documents with these keys
ArrivalOrders(keys) ==
    {order \in [1..Cardinality(keys) -> keys] :
        \A i, j \in 1..Cardinality(keys) : i # j => order[i] # order[j]}

\* what the success callback leaves in items when snapshot.docs holds the
\* documents in this order: the mapped and sorted processes, or, when
\* buildProcess throws for one of them, what was there (setItems is not
\* reached)
snapshotCallback(docs, order, old) ==
    IF \E k \in DOMAIN docs : buildProcessThrows(docs[k]) THEN old
    ELSE SortProcesses([i \in 1..Len(order) |-> buildProcess(docs[order[i]], order[i])])

\* the error callback of onSnapshot: it sets the connection state and
\* leaves the items as they are
ItemsAfterListenerError(ps) == ps

\* a cleanup that does not unsubscribe
ListenerKeptAfterCleanup(listener) == listener

\* the effect's cleanup is onSnapshot's unsubscribe: the listener is released
ListenerAfterCleanup(listener) == "cancelled"

----------------------------------------------------------------------------
(* App: derived values and the upload controls of the detail panel *)

\* null, with an id no process has
NoProcess == [id |-> Null]

RECURSIVE Find(_, _)
Find(ps, id) ==
    IF ps = <<>> THEN NoProcess
    ELSE IF Head(ps).id = id THEN Head(ps)
    ELSE Find(Tail(ps), id)

\* processes.find((p) => p.id === selectedId) ?? null
selectedProcess == IF selectedId = Null THEN NoProcess ELSE Find(items, selectedId)

\* the file input of the confirmation stage is rendered
ConfirmationControl(p, marker) ==
    /\ p.confirmation.status \in {"pending", "conflict"}
    /\ marker # "confirmation"

\* a delivery control that does not look at the confirmation stage
DeliveryControlUngated(p, marker) ==
    /\ p.delivery.status \in {"pending", "conflict"}
    /\ marker # "delivery"

\* the file input of the delivery stage is rendered
DeliveryControl(p, marker) ==
    /\ p.confirmation.status = "verified"
    /\ p.delivery.status \in {"pending", "conflict"}
    /\ marker # "delivery"

ControlRendered(stage) ==
    /\ selectedProcess.id # Null
    /\ IF stage = "confirmation"
       THEN ConfirmationControl(selectedProcess, uploadingStage)
       ELSE DeliveryControl(selectedProcess, uploadingStage)

----------------------------------------------------------------------------
(* handleFileUpload: the two updateDoc payloads *)

\* updateDoc(docRef, {stage.status, stage.fileName, stage.uploadedAt})
OptimisticWrite(doc, stage, fileName) ==
    [doc EXCEPT ![stage].status = "analyzing",
                ![stage].fileName = sanitizeTextInput(fileName),
                ![stage].uploadedAt = "now"]

\* a second write that leaves the aggregate status out
FallbackWriteStageOnly(doc, stage, isConflict) ==
    [doc EXCEPT ![stage].status = IF isConflict THEN "conflict" ELSE "verified",
                ![stage].conflictReason = IF isConflict THEN SimulatedReason ELSE "null"]

\* updateDoc(docRef, {stage.status, stage.conflictReason, status})
FallbackWrite(doc, stage, isConflict) ==
    [doc EXCEPT ![stage].status = IF isConflict THEN "conflict" ELSE "verified",
                ![stage].conflictReason = IF isConflict THEN SimulatedReason ELSE "null",
                !.status = IF isConflict THEN "conflict"
                           ELSE IF stage = "delivery" THEN "completed" ELSE "open"]

\* a catch block that rolls the stage back to pending
StoreRolledBack(docs, key, stage) ==
    IF key \in DOMAIN docs THEN [docs EXCEPT ![key][stage].status = "pending"] ELSE docs

\* what the catch block of a failed dispatch leaves in the store: nothing is
\* written, neither the stage nor the aggregate status is rolled back
StoreAfterDispatchFailure(docs, key, stage) == docs

IdleUpload ==
    [pc |-> "idle", key |-> Null, stage |-> "null", fileName |-> Null,
     webhookUrl |-> "", isConflict |-> FALSE]

UploadSlots == 1..MaxUploads

InFlight == {u \in UploadSlots : uploads[u].pc # "idle"}

Event(stage, result) == [stage |-> stage, result |-> result]

\* a step that reports nothing to the user
NoEvent == Event("null", "none")

----------------------------------------------------------------------------
(* Initial state: the App component before its effects have run *)

\* a document as the ingestion workflow creates it: the order stage is
\* verified, the other two stages are not there yet
IngestedDoc(k) ==
    [id |-> k, supplierName |-> <<"S">>, status |-> "open", createdAt |-> "ts",
     order |-> [EmptyStep EXCEPT !.status = "verified", !.fileName = <<"o">>],
     confirmation |-> EmptyStep,
     delivery |-> EmptyStep]

\* initialWebhookUrls: what localStorage holds for the two stages
WebhookChoices == {"", "url"}

Init ==
    /\ services \in BOOLEAN
    /\ store = [k \in Keys |-> IngestedDoc(k)]
    /\ sub = "unmounted"
    /\ cleaned = FALSE
    /\ auth = "none"
    /\ items = <<>>
    /\ connectionStatus = "connecting"
    /\ selectedId = Null
    /\ filter = "all"
    /\ searchTerm = <<>>
    /\ uploadingStage = "null"
    /\ webhookUrls \in [Stages -> WebhookChoices]
    /\ uploads = [u \in UploadSlots |-> IdleUpload]
    /\ event = NoEvent

----------------------------------------------------------------------------
(* The two effects of the first render *)

Mount ==
    /\ sub = "unmounted"
    /\ IF services
       THEN /\ sub' = "active"
            /\ auth' = "pending"
            /\ UNCHANGED connectionStatus
       ELSE /\ sub' = "none"
            /\ connectionStatus' = "error"
            /\ UNCHANGED auth
    /\ event' = NoEvent
    /\ UNCHANGED <<filter, searchTerm, services, store, cleaned, items, selectedId, uploadingStage, webhookUrls, uploads>>

\* the success callback of onSnapshot
SnapshotNotify ==
    /\ sub = "active"
    /\ connectionStatus' = "connected"
    /\ \E order \in ArrivalOrders(DOMAIN store) :
          items' = snapshotCallback(store, order, items)
    /\ event' = NoEvent
    /\ UNCHANGED <<filter, searchTerm, services, store, sub, cleaned, auth, selectedId, uploadingStage, webhookUrls, uploads>>

\* the error callback of onSnapshot; the listener delivers nothing afterwards
ListenerError ==
    /\ sub = "active"
    /\ sub' = "failed"
    /\ connectionStatus' = "error"
    /\ items' = ItemsAfterListenerError(items)
    /\ event' = NoEvent
    /\ UNCHANGED <<filter, searchTerm, services, store, cleaned, auth, selectedId, uploadingStage, webhookUrls, uploads>>

\* the cleanup returned by the effect of useProcurementData
Cleanup ==
    /\ sub \in {"active", "failed"}
    /\ ~cleaned
    /\ cleaned' = TRUE
    /\ sub' = ListenerAfterCleanup(sub)
    /\ event' = NoEvent
    /\ UNCHANGED <<filter, searchTerm, services, store, auth, items, connectionStatus, selectedId,
                   uploadingStage, webhookUrls, uploads>>

\* authenticate(): the sign-in resolved
AuthOk ==
    /\ auth = "pending"
    /\ auth' = "ok"
    /\ event' = NoEvent
    /\ UNCHANGED <<filter, searchTerm, services, store, sub, cleaned, items, connectionStatus, selectedId,
                   uploadingStage, webhookUrls, uploads>>

\* authenticate(): the sign-in threw
AuthFail ==
    /\ auth = "pending"
    /\ auth' = "failed"
    /\ connectionStatus' = "error"
    /\ event' = NoEvent
    /\ UNCHANGED <<filter, searchTerm, services, store, sub, cleaned, items, selectedId, uploadingStage,
                   webhookUrls, uploads>>

----------------------------------------------------------------------------
(* The user *)

\* the App renders its list and its detail panel
Rendered == sub \in {"active", "failed"} /\ ~cleaned

\* String.prototype.toLowerCase on the letters that occur in ids and terms
LowerCase(c) == IF c = "P" THEN "p" ELSE IF c = "Q" THEN "q" ELSE c
toLowerCase(str) == [i \in 1..Len(str) |-> LowerCase(str[i])]

\* str.includes(part)
RECURSIVE includes(_, _)
includes(str, part) ==
    IF Len(part) > Len(str) THEN FALSE
    ELSE IF SubSeq(str, 1, Len(part)) = part THEN TRUE
    ELSE includes(Tail(str), part)

\* a search that compares the id as it is stored
IdMatchesCaseSensitive(id, sanitized) == includes(id, sanitized)

\* (p) => p.id.toLowerCase().includes(sanitized)
IdMatches(id, sanitized) == includes(toLowerCase(id), sanitized)

\* the useMemo of filteredProcesses: by status first, then by search term
filteredProcesses ==
    LET sanitized == toLowerCase(sanitizeTextInput(searchTerm))
        byStatus == IF filter = "all" THEN items
                    ELSE SelectSeq(items, LAMBDA p : p.status = filter)
    IN IF sanitized = <<>> THEN byStatus
       ELSE SelectSeq(byStatus, LAMBDA p : IdMatches(p.id, sanitized))

\* the ids of the rows of the list
ItemIds == {filteredProcesses[i].id : i \in 1..Len(filteredProcesses)}

\* a click on one of the four filter buttons
SetFilter(f) ==
    /\ Rendered
    /\ filter' = f
    /\ filter' # filter
    /\ event' = NoEvent
    /\ UNCHANGED <<searchTerm, services, store, sub, cleaned, auth, items, connectionStatus,
                   selectedId, uploadingStage, webhookUrls, uploads>>

\* the onChange handler of the search field
SetSearchTerm(text) ==
    /\ Rendered
    /\ searchTerm' = text
    /\ searchTerm' # searchTerm
    /\ event' = NoEvent
    /\ UNCHANGED <<filter, services, store, sub, cleaned, auth, items, connectionStatus,
                   selectedId, uploadingStage, webhookUrls, uploads>>

\* a click on a row of the list, or on the close button of the detail panel
Select(id) ==
    /\ Rendered
    /\ selectedId' = id
    /\ selectedId' # selectedId
    /\ event' = NoEvent
    /\ UNCHANGED <<filter, searchTerm, services, store, sub, cleaned, auth, items, connectionStatus,
                   uploadingStage, webhookUrls, uploads>>

FreeSlots == {u \in UploadSlots : uploads[u].pc = "idle"}

Truthy(str) == str # Null /\ str # Undefined /\ str # <<>>

\* handleFileUpload up to its first await
handleFileUpload(rawStage, file) ==
    LET stage == sanitizeStage(rawStage)
        sanitizedId == IF Truthy(selectedId) THEN sanitizeTextInput(selectedId) ELSE Null
        u == CHOOSE x \in FreeSlots : \A y \in FreeSlots : x <= y
    IN IF stage = "null" \/ file = Undefined \/ ~Truthy(sanitizedId) \/ ~services
       THEN /\ event' = Event(rawStage, "returned")
            /\ UNCHANGED <<uploadingStage, uploads>>
       ELSE /\ uploadingStage' = stage
            /\ uploads' = [uploads EXCEPT ![u] =
                              [pc |-> "optimistic", key |-> sanitizedId, stage |-> stage,
                               fileName |-> file, webhookUrl |-> webhookUrls[stage],
                               isConflict |-> FALSE]]
            /\ event' = Event(stage, "started")

\* the user turns to the upload control of a stage and picks a file
Upload(stage, file) ==
    /\ Rendered
    /\ FreeSlots # {}
    /\ IF ControlRendered(stage)
       THEN handleFileUpload(stage, file)
       ELSE /\ event' = Event(stage, "blocked")
            /\ UNCHANGED <<uploadingStage, uploads>>
    /\ UNCHANGED <<filter, searchTerm, services, store, sub, cleaned, auth, items, connectionStatus, selectedId,
                   webhookUrls>>

----------------------------------------------------------------------------
(* handleFileUpload after its awaits *)

\* a finally block that leaves the marker as it is
MarkerKeptByFinally(marker) == marker

\* the finally block: setUploadingStage(null)
MarkerAfterFinally(marker) == "null"

\* the call in slot u leaves through its finally block
Finish(u, result) ==
    /\ uploads' = [uploads EXCEPT ![u] = IdleUpload]
    /\ uploadingStage' = MarkerAfterFinally(uploadingStage)
    /\ event' = Event(uploads[u].stage, result)

\* what the call does once the first updateDoc has resolved: it dispatches
\* to the webhook when one is configured, and otherwise draws the outcome
\* and issues the second updateDoc
AfterOptimistic(up, isConflict) ==
    IF up.webhookUrl # ""
    THEN [up EXCEPT !.pc = "dispatch", !.fileName = Null]
    ELSE [up EXCEPT !.pc = "fallback", !.fileName = Null, !.isConflict = isConflict]

\* the first updateDoc is applied by the store and resolves
OptimisticAck(u) ==
    LET up == uploads[u] IN
    /\ up.pc = "optimistic"
    /\ up.key \in DOMAIN store
    /\ store' = [store EXCEPT ![up.key] = OptimisticWrite(@, up.stage, up.fileName)]
    /\ \E isConflict \in BOOLEAN :
          /\ up.webhookUrl # "" => ~isConflict
          /\ uploads' = [uploads EXCEPT ![u] = AfterOptimistic(up, isConflict)]
    /\ event' = NoEvent
    /\ UNCHANGED <<filter, searchTerm, services, sub, cleaned, auth, items, connectionStatus, selectedId,
                   uploadingStage, webhookUrls>>

\* a catch block that writes an outcome for the stage all the same
StoreWrittenDespiteReject(docs, key, stage) ==
    IF key \in DOMAIN docs
    THEN [docs EXCEPT ![key] = FallbackWrite(@, stage, FALSE)]
    ELSE docs

\* what a rejected first updateDoc leaves in the store: the throw skips the
\* dispatch and the second write, and the catch block writes nothing
StoreAfterRejectedWrite(docs, key, stage) == docs

\* the first updateDoc rejects: catch, alert, finally
OptimisticReject(u) ==
    /\ uploads[u].pc = "optimistic"
    /\ store' = StoreAfterRejectedWrite(store, uploads[u].key, uploads[u].stage)
    /\ Finish(u, "alert")
    /\ UNCHANGED <<filter, searchTerm, services, sub, cleaned, auth, items, connectionStatus, selectedId,
                   webhookUrls>>

\* fetch resolved with response.ok
DispatchOk(u) ==
    /\ uploads[u].pc = "dispatch"
    /\ Finish(u, "ok")
    /\ UNCHANGED <<filter, searchTerm, services, store, sub, cleaned, auth, items, connectionStatus, selectedId,
                   webhookUrls>>

\* fetch rejected, or resolved with a response that is not ok: the throw is
\* caught, alert, finally
DispatchFail(u) ==
    /\ uploads[u].pc = "dispatch"
    /\ store' = StoreAfterDispatchFailure(store, uploads[u].key, uploads[u].stage)
    /\ Finish(u, "alert")
    /\ UNCHANGED <<filter, searchTerm, services, sub, cleaned, auth, items, connectionStatus, selectedId,
                   webhookUrls>>

\* the second updateDoc is applied by the store and resolves
FallbackAck(u) ==
    LET up == uploads[u] IN
    /\ up.pc = "fallback"
    /\ up.key \in DOMAIN store
    /\ store' = [store EXCEPT ![up.key] = FallbackWrite(@, up.stage, up.isConflict)]
    /\ Finish(u, "ok")
    /\ UNCHANGED <<filter, searchTerm, services, sub, cleaned, auth, items, connectionStatus, selectedId,
                   webhookUrls>>

\* the second updateDoc rejects: catch, alert, finally
FallbackReject(u) ==
    /\ uploads[u].pc = "fallback"
    /\ Finish(u, "alert")
    /\ UNCHANGED <<filter, searchTerm, services, store, sub, cleaned, auth, items, connectionStatus, selectedId,
                   webhookUrls>>

----------------------------------------------------------------------------
(* Specifications *)

Next ==
    \/ Mount
    \/ SnapshotNotify
    \/ ListenerError
    \/ Cleanup
    \/ AuthOk
    \/ AuthFail
    \/ \E id \in ItemIds \cup {Null} : Select(id)
    \/ \E stage \in Stages, file \in FileNames \cup {Undefined} : Upload(stage, file)
    \/ \E u \in UploadSlots : OptimisticAck(u)
    \/ \E u \in UploadSlots : OptimisticReject(u)
    \/ \E u \in UploadSlots : DispatchOk(u)
    \/ \E u \in UploadSlots : DispatchFail(u)
    \/ \E u \in UploadSlots : FallbackAck(u)
    \/ \E u \in UploadSlots : FallbackReject(u)

\* the core alone: the user, the store's acknowledgements and notifications,
\* the webhook's responses
Spec == Init /\ [][Next]_vars

\* a session whose effects have run and whose sign-in has resolved
InitSignedIn ==
    /\ services = TRUE
    /\ store = [k \in Keys |-> IngestedDoc(k)]
    /\ sub = "active"
    /\ cleaned = FALSE
    /\ auth = "ok"
    /\ items = <<>>
    /\ connectionStatus = "connecting"
    /\ selectedId = Null
    /\ filter = "all"
    /\ searchTerm = <<>>
    /\ uploadingStage = "null"
    /\ webhookUrls \in [Stages -> WebhookChoices]
    /\ uploads = [u \in UploadSlots |-> IdleUpload]
    /\ event = NoEvent

\* the steps of such a session
SessionNext ==
    \/ SnapshotNotify
    \/ ListenerError
    \/ Cleanup
    \/ \E id \in ItemIds \cup {Null} : Select(id)
    \/ \E stage \in Stages, file \in FileNames \cup {Undefined} : Upload(stage, file)
    \/ \E u \in UploadSlots : OptimisticAck(u)
    \/ \E u \in UploadSlots : OptimisticReject(u)
    \/ \E u \in UploadSlots : DispatchOk(u)
    \/ \E u \in UploadSlots : DispatchFail(u)
    \/ \E u \in UploadSlots : FallbackAck(u)
    \/ \E u \in UploadSlots : FallbackReject(u)

\* the core in a signed-in session: the user, the listener, the store's
\* acknowledgements, the webhook's responses
SessionSpec == InitSignedIn /\ [][SessionNext]_vars

\* such a session with confirmations decided by the fallback classifier and
\* deliveries dispatched to a webhook
InitMixedEndpoints ==
    /\ InitSignedIn
    /\ webhookUrls = [confirmation |-> "", delivery |-> "url"]

\* every promise a running call awaits settles eventually
Fairness ==
    \A u \in UploadSlots :
        /\ WF_vars(OptimisticAck(u) \/ OptimisticReject(u))
        /\ WF_vars(DispatchOk(u) \/ DispatchFail(u))
        /\ WF_vars(FallbackAck(u) \/ FallbackReject(u))

FairSpec == InitMixedEndpoints /\ [][SessionNext]_vars /\ Fairness

\* keys of the collection whose mapping is examined
MapKeys == {<<"1">>, <<"2">>, <<"3">>}

\* stored documents of several shapes: with nothing but an id; with a
\* confirmation stage that has a file name and no status; with a stage in
\* conflict; with an id that carries a markup character and a delivery stage
\* that has only a status; with no id field; with a number as id
RawDocs ==
    LET Blank == [id |-> Undefined, supplierName |-> Undefined, status |-> "undefined",
                  createdAt |-> "undefined", order |-> EmptyStep,
                  confirmation |-> EmptyStep, delivery |-> EmptyStep]
    IN {[Blank EXCEPT !.id = <<"0", "0", "2">>],
        [Blank EXCEPT !.id = <<"0", "1", "0">>, !.status = "open",
                      !.confirmation = [EmptyStep EXCEPT !.fileName = <<"f">>]],
        [Blank EXCEPT !.id = <<"0", "0", "1">>, !.status = "conflict",
                      !.supplierName = <<"<", "S">>,
                      !.confirmation = [EmptyStep EXCEPT !.status = "conflict",
                                                         !.conflictReason = SimulatedReason]],
        [Blank EXCEPT !.id = <<"<", "0", "0", "1">>,
                      !.delivery = [EmptyStep EXCEPT !.status = "verified"]],
        Blank,
        [Blank EXCEPT !.id = NonString]}

InitRecords ==
    /\ services = TRUE
    /\ store \in [MapKeys -> RawDocs]
    /\ sub = "active"
    /\ cleaned = FALSE
    /\ auth = "ok"
    /\ items = <<>>
    /\ connectionStatus = "connecting"
    /\ selectedId = Null
    /\ filter = "all"
    /\ searchTerm = <<>>
    /\ uploadingStage = "null"
    /\ webhookUrls = [st \in Stages |-> ""]
    /\ uploads = [u \in UploadSlots |-> IdleUpload]
    /\ event = NoEvent

\* a party outside the core replaces a document of the collection
StoreChange(k, doc) ==
    /\ k \in DOMAIN store
    /\ store' = [store EXCEPT ![k] = doc]
    /\ store' # store
    /\ event' = NoEvent
    /\ UNCHANGED <<filter, searchTerm, services, sub, cleaned, auth, items, connectionStatus,
                   selectedId, uploadingStage, webhookUrls, uploads>>

RecordsNext ==
    \/ SnapshotNotify
    \/ \E k \in MapKeys, doc \in RawDocs : StoreChange(k, doc)

\* the listener over a collection of documents of every shape
RecordsSpec == InitRecords /\ [][RecordsNext]_vars

\* the characters a user types into the search field
TermChars == {"<", "\"", " ", "P", "p", "1"}

\* what one keystroke makes of the content of the search field: a character
\* inserted at the cursor, or the character before the cursor removed
TypedTexts(text) ==
    {SubSeq(text, 1, i) \o <<c>> \o SubSeq(text, i + 1, Len(text)) :
        i \in 0..(IF Len(text) < MaxTermLen THEN Len(text) ELSE -1), c \in TermChars}
    \cup {SubSeq(text, 1, i - 1) \o SubSeq(text, i + 1, Len(text)) : i \in 1..Len(text)}

\* a collection of three processes: one open with only its order, one open
\* with a verified confirmation, one whose confirmation is in conflict
Catalog ==
    LET a == <<"P", "1">>
        b == <<"P", "1", "0">>
        c == <<"Q", "1">>
    IN (a :> IngestedDoc(a))
       @@ (b :> FallbackWrite(IngestedDoc(b), "confirmation", FALSE))
       @@ (c :> FallbackWrite(IngestedDoc(c), "confirmation", TRUE))

InitView ==
    /\ services = TRUE
    /\ store = Catalog
    /\ sub = "active"
    /\ cleaned = FALSE
    /\ auth = "ok"
    /\ items = <<>>
    /\ connectionStatus = "connecting"
    /\ selectedId = Null
    /\ filter = "all"
    /\ searchTerm = <<>>
    /\ uploadingStage = "null"
    /\ webhookUrls = [st \in Stages |-> ""]
    /\ uploads = [u \in UploadSlots |-> IdleUpload]
    /\ event = NoEvent

ViewNext ==
    \/ SnapshotNotify
    \/ \E f \in {"all"} \cup ProcessStatus : SetFilter(f)
    \/ \E text \in TypedTexts(searchTerm) : SetSearchTerm(text)
    \/ \E id \in ItemIds \cup {Null} : Select(id)

\* the list of a signed-in session: its filter buttons and its search field
ViewSpec == InitView /\ [][ViewNext]_vars

\* keys of a collection of two processes
PairKeys == {<<"1">>, <<"2">>}

\* two ingested documents whose id field is their key
FiledStore == [k \in PairKeys |-> IngestedDoc(k)]

\* two ingested documents whose id field is the key of the other one
MisfiledStore ==
    [k \in PairKeys |-> [IngestedDoc(k) EXCEPT !.id = CHOOSE x \in PairKeys : x # k]]

\* a signed-in session without endpoints over these documents
InitPair(docs) ==
    /\ services = TRUE
    /\ store = docs
    /\ sub = "active"
    /\ cleaned = FALSE
    /\ auth = "ok"
    /\ items = <<>>
    /\ connectionStatus = "connecting"
    /\ selectedId = Null
    /\ filter = "all"
    /\ searchTerm = <<>>
    /\ uploadingStage = "null"
    /\ webhookUrls = [st \in Stages |-> ""]
    /\ uploads = [u \in UploadSlots |-> IdleUpload]
    /\ event = NoEvent

\* a second session of the application, running without endpoints, writes
\* the outcome of one of its own submissions
ExternalResult(k, stage, isConflict) ==
    /\ k \in DOMAIN store
    /\ store' = [store EXCEPT ![k] = FallbackWrite(@, stage, isConflict)]
    /\ store' # store
    /\ event' = NoEvent
    /\ UNCHANGED <<filter, searchTerm, services, sub, cleaned, auth, items, connectionStatus,
                   selectedId, uploadingStage, webhookUrls, uploads>>

SharedNext ==
    \/ SnapshotNotify
    \/ \E id \in ItemIds \cup {Null} : Select(id)
    \/ \E file \in FileNames : Upload("confirmation", file)
    \/ \E u \in UploadSlots : OptimisticAck(u)
    \/ \E u \in UploadSlots : OptimisticReject(u)
    \/ \E u \in UploadSlots : FallbackAck(u)
    \/ \E u \in UploadSlots : FallbackReject(u)
    \/ \E k \in PairKeys, isConflict \in BOOLEAN :
          ExternalResult(k, "confirmation", isConflict)

InitShared == InitPair(FiledStore)

\* a session without endpoints in which confirmations are submitted, over a
\* collection that a second session writes to as well
SharedSpec == InitShared /\ [][SharedNext]_vars

InitMisfiled == InitPair(MisfiledStore)

\* the same session over documents whose id field is not their key
MisfiledSpec == InitMisfiled /\ [][SharedNext]_vars

----------------------------------------------------------------------------
(* Properties *)

\* the processes of the store as buildProcess maps them, and those of the
\* in-memory collection
StoredProcesses == {buildProcess(store[k], k) : k \in DOMAIN store}
ShownProcesses == {items[i] : i \in 1..Len(items)}
AllProcesses == StoredProcesses \cup ShownProcesses

StageConflict(p) == p.confirmation.status = "conflict" \/ p.delivery.status = "conflict"

\* the call in slot u leaves in this step
Leaves(u, from, result) ==
    /\ uploads[u].pc = from
    /\ uploads'[u].pc = "idle"
    /\ event' = Event(uploads[u].stage, result)

\* C1: in every reachable state every Process has aggregate status conflict
\* if and only if its confirmation or its delivery stage is in conflict.
C1_ConflictIffStageConflict ==
    \A p \in AllProcesses : (p.status = "conflict") <=> StageConflict(p)

\* C2: in every reachable state every Process with no stage in conflict has
\* aggregate status completed if and only if its delivery stage is verified,
\* and aggregate status open otherwise.
C2_CompletedIffDeliveryVerified ==
    \A p \in AllProcesses :
        ~StageConflict(p) =>
            /\ (p.status = "completed") <=> (p.delivery.status = "verified")
            /\ p.status # "completed" => p.status = "open"

\* C3: a use of the delivery upload control for a shown Process whose
\* confirmation is not verified is rejected: the step issues no store write,
\* starts no upload and leaves the in-flight marker as it is.
C3_DeliveryGateRejects ==
    [][(/\ event'.stage = "delivery"
        /\ event'.result \in {"started", "returned", "blocked"}
        /\ selectedProcess.id # Null
        /\ selectedProcess.confirmation.status # "verified")
       => (/\ event'.result = "blocked"
           /\ store' = store
           /\ uploads' = uploads
           /\ uploadingStage' = uploadingStage)]_vars

C3_Witness ==
    /\ event = Event("delivery", "blocked")
    /\ selectedProcess.id # Null
    /\ selectedProcess.confirmation.status # "verified"
    /\ selectedProcess.delivery.status = "pending"

\* C4: at most one handleFileUpload call is in flight at any time, and the
\* uploadingStage marker is non-null exactly while one is.
C4_SingleInFlight ==
    /\ Cardinality(InFlight) <= 1
    /\ (uploadingStage # "null") <=> (InFlight # {})

\* C5: every handleFileUpload call that has set the marker reaches its
\* finally block, whichever way it leaves, and the marker is null then.
C5_MarkerEventuallyCleared ==
    \A u \in UploadSlots :
        (uploads[u].pc # "idle") ~> (uploads[u].pc = "idle" /\ uploadingStage = "null")

\* a call has just left through a failed dispatch
C5_Witness ==
    /\ event = Event("delivery", "alert")
    /\ \E k \in DOMAIN store : store[k].delivery.status = "analyzing"
    /\ uploadingStage = "null"
    /\ InFlight = {}

\* C6: a failed dispatch writes nothing: the stage it was submitted for is
\* analyzing in the store and stays so, the aggregate status is untouched;
\* and no step of the core takes a stage that has an endpoint configured
\* out of analyzing.
C6_DispatchFailureKeepsAnalyzing ==
    [][/\ \A u \in UploadSlots :
            Leaves(u, "dispatch", "alert")
            => (/\ store' = store
                /\ store[uploads[u].key][uploads[u].stage].status = "analyzing")
       /\ \A k \in DOMAIN store, st \in Stages :
            (webhookUrls[st] # "" /\ store[k][st].status = "analyzing")
            => store'[k][st].status = "analyzing"]_vars

\* the dispatch of a confirmation has just failed
C6_Witness ==
    /\ event = Event("confirmation", "alert")
    /\ webhookUrls["confirmation"] # ""
    /\ \E k \in DOMAIN store :
          /\ store[k].confirmation.status = "analyzing"
          /\ store[k].status = "open"

\* the two outcomes of the fallback write
FallbackOutcome(doc, stage) ==
    \/ /\ doc[stage].status = "verified"
       /\ doc[stage].conflictReason = "null"
       /\ doc.status = IF stage = "delivery" THEN "completed" ELSE "open"
    \/ /\ doc[stage].status = "conflict"
       /\ doc[stage].conflictReason \notin {"null", "undefined"}
       /\ doc.status = "conflict"

\* C7: with no endpoint configured a call first makes the store hold
\* analyzing for its stage, and its second write, when it succeeds, leaves
\* the stage verified with no conflict reason and the aggregate open
\* (confirmation) or completed (delivery), or the stage in conflict with a
\* reason and the aggregate in conflict.
C7_FallbackOutcomes ==
    [][\A u \in UploadSlots :
          LET up == uploads[u] IN
          /\ (up.pc = "optimistic" /\ uploads'[u].pc \in {"fallback", "dispatch"})
             => (/\ store'[up.key][up.stage].status = "analyzing"
                 /\ store'[up.key].status = store[up.key].status
                 /\ (uploads'[u].pc = "fallback") <=> (webhookUrls[up.stage] = ""))
          /\ (uploads'[u].pc = "fallback") => up.pc \in {"optimistic", "fallback"}
          /\ Leaves(u, "fallback", "ok") => FallbackOutcome(store'[up.key], up.stage)]_vars

\* the second write of a delivery has just ended in conflict
C7_Witness ==
    /\ event = Event("delivery", "ok")
    /\ webhookUrls["delivery"] = ""
    /\ \E k \in DOMAIN store :
          /\ store[k].delivery.status = "conflict"
          /\ store[k].delivery.conflictReason = SimulatedReason
          /\ store[k].status = "conflict"

\* C8: whenever the connection state is error after the listener has failed,
\* the in-memory collection is empty.
C8_ErrorMeansEmpty ==
    (sub = "failed" /\ connectionStatus = "error") => items = <<>>

\* C9: once the connection state is error, no step moves it back to
\* connected or connecting.
C9_ErrorIsFinal ==
    [][connectionStatus = "error" => connectionStatus' = "error"]_vars

\* C10: once the cleanup of the subscription has run, no notification is
\* delivered: neither the collection nor the connection state changes.
C10_NoMutationAfterCleanup ==
    [][cleaned => (items' = items /\ connectionStatus' = connectionStatus)]_vars

\* the cleanup has run and the store has moved on since the last notification
C10_Witness ==
    /\ cleaned
    /\ connectionStatus = "connected"
    /\ items # <<>>
    /\ items # SnapshotProcesses(store)

ProcessFields == {"id", "supplierName", "status", "createdAt", "order", "confirmation", "delivery"}

\* the ids of a list are in descending order
Descending(ps) ==
    \A i, j \in 1..Len(ps) : i < j => localeCompare(ps[i].id, ps[j].id) >= 0

\* C11: after each notification the in-memory collection holds one Process
\* per document of the notification, each the mapping of its document,
\* sorted by id in descending order, and it is the same for every order in
\* which the documents arrive.
C11_RebuiltSortedOrderFree ==
    [][SnapshotNotify =>
          /\ Len(items') = Cardinality(DOMAIN store)
          /\ \A k \in DOMAIN store :
                ~buildProcessThrows(store[k])
                /\ \E i \in 1..Len(items') : items'[i] = buildProcess(store[k], k)
          /\ Descending(items')
          /\ \A order \in ArrivalOrders(DOMAIN store) :
                snapshotCallback(store, order, items) = items']_vars

\* C12: in every reachable state no two Processes of the in-memory
\* collection have the same id.
C12_UniqueIds ==
    \A i, j \in 1..Len(items) : i # j => items[i].id # items[j].id

\* C13: for every record of a notification buildProcess returns a Process with the
\* three stages, each with status pending, conflictReason null and data null
\* where the record has no such field, and with the record's own value where
\* it has one; the aggregate status is open when the record has none.
C13_StagesDefaulted ==
    [][SnapshotNotify => \A k \in DOMAIN store :
        /\ ~buildProcessThrows(store[k])
        /\ LET p == buildProcess(store[k], k) IN
           /\ DOMAIN p = ProcessFields
           /\ store[k].status = "undefined" => p.status = "open"
           /\ \A st \in {"order", "confirmation", "delivery"} :
                 /\ p[st].status =
                       IF store[k][st].status = "undefined" THEN "pending" ELSE store[k][st].status
                 /\ p[st].conflictReason =
                       IF store[k][st].conflictReason = "undefined" THEN "null"
                       ELSE store[k][st].conflictReason
                 /\ p[st].data =
                       IF store[k][st].data = "undefined" THEN "null" ELSE store[k][st].data
                 /\ p[st].fileName = store[k][st].fileName
                 /\ p[st].uploadedAt = store[k][st].uploadedAt]_vars

\* C14: mapping never fails: after a notification every record of it has its
\* Process in the in-memory collection, whatever the shape of the other
\* records.
C14_MappingNeverFails ==
    [][SnapshotNotify =>
          /\ \A k \in DOMAIN store : ~buildProcessThrows(store[k])
          /\ \A k \in DOMAIN store :
                ~buildProcessThrows(store[k])
                => \E i \in 1..Len(items') : items'[i] = buildProcess(store[k], k)]_vars

\* C15: sanitizeTextInput is idempotent, and its result has none of the
\* five markup characters and neither leading nor trailing whitespace; stated
\* of the text of the search field, which filteredProcesses sanitizes.
C15_SanitizeIdempotent ==
    LET y == sanitizeTextInput(searchTerm) IN
    /\ sanitizeTextInput(y) = y
    /\ \A i \in 1..Len(y) : y[i] \notin HazardChars
    /\ y # <<>> => (y[1] \notin Whitespace /\ y[Len(y)] \notin Whitespace)

\* a text with whitespace behind a markup character has been typed
C15_Witness ==
    /\ searchTerm = <<"<", " ", "p">>
    /\ sanitizeTextInput(searchTerm) = <<"p">>

\* str contains part
Contains(str, part) ==
    \E i \in 0..(Len(str) - Len(part)) : \A j \in 1..Len(part) : str[i + j] = part[j]

\* the Process is one the filter and the search term select
Selected(p) ==
    /\ filter = "all" \/ p.status = filter
    /\ Contains(toLowerCase(p.id), toLowerCase(sanitizeTextInput(searchTerm)))

SelectedIndexes == {i \in 1..Len(items) : Selected(items[i])}

\* the n-th smallest of a set of indexes
NthIndex(n) ==
    CHOOSE i \in SelectedIndexes : Cardinality({m \in SelectedIndexes : m < i}) = n - 1

\* C16: the filtered view is the subsequence of the collection, in its
\* order, of exactly the Processes whose status equals the filter (all for
\* filter all) and whose lower-cased id contains the sanitized, lower-cased
\* search term; a change of filter or search term leaves the collection as
\* it is.
C16_FilteredSubsequence ==
    /\ [](/\ Len(filteredProcesses) = Cardinality(SelectedIndexes)
          /\ \A n \in 1..Len(filteredProcesses) : filteredProcesses[n] = items[NthIndex(n)])
    /\ [][(filter' # filter \/ searchTerm' # searchTerm) => items' = items]_vars

\* a status filter and an upper-case search term select two of three
C16_Witness ==
    /\ Len(items) = 3
    /\ filter = "open"
    /\ searchTerm = <<"<", "P">>
    /\ Len(filteredProcesses) = 2

\* C18: in every reachable state a stage of a Process, stored or shown, has
\* a conflict reason only when its status is conflict.
C18_ReasonOnlyInConflict ==
    \A p \in AllProcesses : \A st \in {"order", "confirmation", "delivery"} :
        p[st].conflictReason \notin {"null", "undefined"} => p[st].status = "conflict"

\* the call in slot u has its first write applied in this step
OptimisticApplied(u) ==
    uploads[u].pc = "optimistic" /\ uploads'[u].pc \in {"fallback", "dispatch"}

\* C17: whenever the optimistic write of a call is applied, the status of
\* its stage in the store at that moment is pending (or absent) or conflict.
C17_AnalyzingOnlyFromPendingOrConflict ==
    [][\A u \in UploadSlots :
          OptimisticApplied(u)
          => MergeStep(store[uploads[u].key][uploads[u].stage]).status
                \in {"pending", "conflict"}]_vars

\* the documents from which the Process with this id is mapped
DocsOf(id) == {k \in DOMAIN store : buildProcess(store[k], k).id = id}

StepFields == {"status", "fileName", "uploadedAt", "conflictReason", "data"}

\* the fields of a document that differ between this state and the next
ChangedFields(k) ==
    {<<f>> : f \in {g \in {"id", "supplierName", "status", "createdAt"} :
                      store'[k][g] # store[k][g]}}
    \cup UNION {{<<st, f>> : f \in {g \in StepFields : store'[k][st][g] # store[k][st][g]}} :
                   st \in {"order", "confirmation", "delivery"}}

\* C19: a store write of a submission for stage s of process p changes only
\* s.status, s.fileName, s.uploadedAt, s.conflictReason and, with its second
\* write, the aggregate status, and only in the document of p; no document
\* is created or deleted.
C19_WritesOnlyOwnStage ==
    [][\A u \in UploadSlots :
          (uploads[u].pc \in {"optimistic", "fallback"} /\ uploads'[u] # uploads[u])
          => /\ DOMAIN store' = DOMAIN store
             /\ \A k \in DOMAIN store :
                   /\ ChangedFields(k) # {} => k \in DocsOf(uploads[u].key)
                   /\ ChangedFields(k) \subseteq
                         {<<uploads[u].stage, f>> :
                             f \in {"status", "fileName", "uploadedAt", "conflictReason"}}
                         \cup (IF uploads[u].pc = "fallback" THEN {<<"status">>} ELSE {})]_vars

\* C20: the document key a starting handleFileUpload call uses is the store
\* key of every stored record from which the selected Process is mapped.
C20_WriteTargetsSource ==
    [][\A u \in UploadSlots :
          (uploads[u].pc = "idle" /\ uploads'[u].pc = "optimistic")
          => \A k \in DocsOf(selectedId) : uploads'[u].key = k]_vars

\* C21: a call whose first write is rejected stops there: it leaves at once
\* with the failure reported and the marker null, the store is as it was,
\* and a call goes on to the dispatch or to the second write only with its
\* first write applied.
C21_RejectedWriteStops ==
    [][\A u \in UploadSlots :
          uploads[u].pc = "optimistic" =>
             /\ uploads'[u].pc \in {"optimistic", "dispatch", "fallback", "idle"}
             /\ uploads'[u].pc = "idle"
                => /\ store' = store
                   /\ event' = Event(uploads[u].stage, "alert")
                   /\ uploadingStage' = "null"
             /\ uploads'[u].pc \in {"dispatch", "fallback"}
                => store'[uploads[u].key][uploads[u].stage].status = "analyzing"]_vars

\* the first write of a confirmation has just been rejected
C21_Witness ==
    /\ event = Event("confirmation", "alert")
    /\ \A k \in DOMAIN store : store[k].confirmation.status = "undefined"
    /\ uploadingStage = "null"
    /\ InFlight = {}

====
